---- MODULE Spec2Model ----
(***************************************************************************)
(* Model of the market-sentiment dashboard's data path:                    *)
(*   src/src/sentiment_analyzer.py  load_sentiment_model, analyze_sentiment *)
(*   src/src/data_ingestion.py      get_stock_data, get_company_info,       *)
(*                                  get_price_and_change, get_stock_news    *)
(*   src/sentiment/services.py      get_company_data,                       *)
(*                                  analyze_news_for_ticker                 *)
(*   src/sentiment/views.py         analyze                                 *)
(*                                                                         *)
(* The program keeps no state between calls.  A behaviour of the model is  *)
(* a sequence of calls: from "idle" one operation is invoked on inputs     *)
(* drawn from the external world (the quote provider, the news feed, the   *)
(* classifier), runs to completion and leaves its arguments and its        *)
(* outcome in args and ret; Return discards them.                          *)
(*                                                                         *)
(* Conventions.                                                            *)
(*   A Python value that may be None is a tuple: None is << >>, the value  *)
(*   v is <<v>>.  A dict key that may be absent is modelled the same way.  *)
(*   A Python str is a sequence of one-character strings.                  *)
(*   A float is an integer (prices) or an exact fraction <<num, den>>      *)
(*   (change_pct), so that no rounding is invented.                        *)
(*   A call's outcome is [raised |-> FALSE, value |-> v] or                *)
(*   [raised |-> TRUE, msg |-> m].                                         *)
(***************************************************************************)
EXTENDS Integers, Sequences, FiniteSets, TLC

VARIABLES pc, op, args, ret

vars == <<pc, op, args, ret>>

(***************************************************************************)
(* Bounds of the model.                                                    *)
(***************************************************************************)
\* Longest news feed the provider returns.
MaxFeed == 2
\* Longest close series stock.history returns to get_price_and_change.
MaxHist == 3
\* Largest price; prices range over 0..MaxPrice.
MaxPrice == 2
\* Longest history get_stock_data hands to get_company_data.
MaxRows == 3
\* The long histories run up to MaxExtra rows beyond the 180 that are kept.
MaxExtra == 2
\* Most news items the dataset builder is given.
MaxItems == 3

(***************************************************************************)
(* Python values.                                                          *)
(***************************************************************************)
None == << >>

Some(v) == <<v>>

Opt(S) == {None} \cup {Some(v) : v \in S}

Ok(v) == [raised |-> FALSE, value |-> v]

Raise(m) == [raised |-> TRUE, msg |-> m]

UpperChars == <<"A","B","C","D","E","F","G","H","I","J","K","L","M",
                "N","O","P","Q","R","S","T","U","V","W","X","Y","Z">>

LowerChars == <<"a","b","c","d","e","f","g","h","i","j","k","l","m",
                "n","o","p","q","r","s","t","u","v","w","x","y","z">>

\* str.lower() on one character.
LowerChar(c) ==
    IF \E i \in 1..26 : UpperChars[i] = c
    THEN LowerChars[CHOOSE i \in 1..26 : UpperChars[i] = c]
    ELSE c

\* str.lower()
Lower(s) == [i \in 1..Len(s) |-> LowerChar(s[i])]

\* sub in s
Contains(s, sub) ==
    \E i \in 0..(Len(s) - Len(sub)) : SubSeq(s, i + 1, i + Len(sub)) = sub

\* The string literals of the sources.
StrPositive == <<"P","o","s","i","t","i","v","e">>

StrNegative == <<"N","e","g","a","t","i","v","e">>

StrNeutral == <<"N","e","u","t","r","a","l">>

str_positive == <<"p","o","s","i","t","i","v","e">>

str_negative == <<"n","e","g","a","t","i","v","e">>

str_neutral == <<"n","e","u","t","r","a","l">>

StrNoTitle == <<"N","o"," ","T","i","t","l","e">>

StrHash == <<"#">>

StrNA == <<"N","/","A">>

\* A headline, a link and a timestamp as the feed delivers them.
StrHeadline == <<"A","c","m","e"," ","b","e","a","t","s">>

StrLink == <<"h","t","t","p",":","/","/","a">>

StrPublished == <<"M","o","n">>

\* Exception messages.
KeyErrorLabel == <<"'","l","a","b","e","l","'">>

KeyErrorScore == <<"'","s","c","o","r","e","'">>

IndexErrorMsg == <<"l","i","s","t"," ","i","n","d","e","x">>

ProviderErrorMsg == <<"p","r","o","v","i","d","e","r">>

(***************************************************************************)
(* The classifier (transformers pipeline) as a black box: for each text it *)
(* is given it raises, returns an empty batch, or returns one result dict  *)
(* whose 'label' and 'score' keys may each be absent.                      *)
(***************************************************************************)
RawLabels ==
    { str_positive, str_negative, str_neutral,
      <<"P","O","S","I","T","I","V","E">>,
      StrNegative,
      <<"L","A","B","E","L","_","0">> }

\* Scores in hundredths.
Scores == {87}

\* A result dict lacks 'label', lacks 'score', or has both.
ClassifierOutcomes ==
    { [kind |-> "raise", label |-> None, score |-> None],
      [kind |-> "empty", label |-> None, score |-> None],
      [kind |-> "result", label |-> Some(str_positive), score |-> None] }
    \cup [kind : {"result"}, label : Opt(RawLabels), score : {Some(x) : x \in Scores}]

\* The texts get_stock_news can hand to the classifier.
ClassifierTexts == {StrNoTitle, StrHeadline}

Classifiers == [ClassifierTexts -> ClassifierOutcomes]

(***************************************************************************)
(* sentiment_analyzer.py                                                   *)
(***************************************************************************)
\* load_sentiment_model: the pipeline or, when loading raises, None.
load_sentiment_model(loads, classifier) ==
    IF loads THEN Some(classifier) ELSE None

\* The dict both early exits of analyze_sentiment return.
DefaultSentiment == [label |-> Some(str_neutral), score |-> Some(0)]

\* sentiment_map.get(raw, 'Neutral'): exact lookup in a three-key dict.
sentiment_map_get(raw) ==
    IF raw = str_positive THEN StrPositive
    ELSE IF raw = str_negative THEN StrNegative
    ELSE IF raw = str_neutral THEN StrNeutral
    ELSE StrNeutral

\* The body of the try block of analyze_sentiment: one classifier call.
\* calls counts the invocations of the classifier.
analyze_body(text, classifier) ==
    LET out == classifier[text] IN
    IF out.kind = "raise"
    THEN [raised |-> TRUE, msg |-> ProviderErrorMsg, calls |-> 1]
    ELSE IF out.kind = "empty"
    THEN [raised |-> TRUE, msg |-> IndexErrorMsg, calls |-> 1]
    ELSE IF out.label = None
    THEN [raised |-> TRUE, msg |-> KeyErrorLabel, calls |-> 1]
    ELSE [raised |-> FALSE,
          value |-> [label |-> Some(sentiment_map_get(out.label[1])),
                     score |-> out.score],
          calls |-> 1]

\* except Exception: return the default.
analyze_except(body) ==
    IF body.raised
    THEN [raised |-> FALSE, value |-> DefaultSentiment, calls |-> body.calls]
    ELSE body

\* analyze_sentiment(text, classifier); text and classifier are optional.
analyze_sentiment(text, classifier) ==
    IF classifier = None \/ text = None \/ text = Some(<< >>)
    THEN [raised |-> FALSE, value |-> DefaultSentiment, calls |-> 0]
    ELSE analyze_except(analyze_body(text[1], classifier[1]))

(***************************************************************************)
(* data_ingestion.py: get_stock_news                                       *)
(***************************************************************************)
\* A raw feed item: each key may be absent.
FeedItems ==
    [title : Opt({<< >>, StrHeadline}), link : Opt({StrLink}),
     published : Opt({StrPublished})]

RECURSIVE SeqsUpTo(_, _)
\* The sequences over S of length at most n.
SeqsUpTo(S, n) ==
    IF n = 0 THEN {<< >>}
    ELSE LET shorter == SeqsUpTo(S, n - 1) IN
         shorter \cup {Append(s, x) : s \in {t \in shorter : Len(t) = n - 1}, x \in S}

\* yf_news.get_yf_rss(ticker): raises, or a list of items.
FeedOutcomes ==
    {Raise(ProviderErrorMsg)} \cup {Ok(f) : f \in SeqsUpTo(FeedItems, MaxFeed)}

\* dict.get(key, default)
GetOr(field, default) == IF field = None THEN default ELSE field[1]

\* One pass of the loop body of get_stock_news.
news_item(item, classifier) ==
    LET title == GetOr(item.title, StrNoTitle)
        sentiment == analyze_sentiment(Some(title), classifier)
    IN  IF sentiment.raised THEN sentiment
        ELSE IF sentiment.value.score = None THEN Raise(KeyErrorScore)
        ELSE Ok([title |-> title,
                 link |-> GetOr(item.link, StrHash),
                 published |-> GetOr(item.published, StrNA),
                 sentiment_label |-> sentiment.value.label[1],
                 sentiment_score |-> sentiment.value.score[1]])

RECURSIVE news_loop_skip(_, _, _)
\* A loop that drops an item whose scoring raises and goes on with the rest.
news_loop_skip(news_list, classifier, analyzed_news) ==
    IF news_list = << >> THEN Ok(analyzed_news)
    ELSE LET it == news_item(Head(news_list), classifier) IN
         IF it.raised THEN news_loop_skip(Tail(news_list), classifier, analyzed_news)
         ELSE news_loop_skip(Tail(news_list), classifier,
                             Append(analyzed_news, it.value))

RECURSIVE news_loop(_, _, _)
\* for item in news_list: ... analyzed_news.append(...)
news_loop(news_list, classifier, analyzed_news) ==
    IF news_list = << >> THEN Ok(analyzed_news)
    ELSE LET it == news_item(Head(news_list), classifier) IN
         IF it.raised THEN it
         ELSE news_loop(Tail(news_list), classifier, Append(analyzed_news, it.value))

\* A get_stock_news that scores the feed without a classifier instead of
\* giving up when the model did not load.
news_without_model_scored(feed) ==
    IF feed.raised THEN Ok(<< >>)
    ELSE LET body == news_loop(feed.value, None, << >>) IN
         IF body.raised THEN Ok(<< >>) ELSE body

\* What get_stock_news returns when the classifier is None: [] before the
\* feed is fetched.
news_without_model(feed) == Ok(<< >>)

\* get_stock_news(ticker)
get_stock_news(loads, model, feed) ==
    LET classifier == load_sentiment_model(loads, model) IN
    IF classifier = None THEN news_without_model(feed)
    ELSE IF feed.raised THEN Ok(<< >>)
    ELSE LET body == news_loop(feed.value, classifier, << >>) IN
         IF body.raised THEN Ok(<< >>) ELSE body

(***************************************************************************)
(* data_ingestion.py: the quote provider (yfinance) as a black box.        *)
(* stock.info raises, is None, or is a dict whose keys may be absent;      *)
(* stock.history raises, is None, or is a frame.                           *)
(***************************************************************************)
Prices == 0..MaxPrice

\* Market capitalisations the provider reports.
MarketCaps == {0, 1234567}

\* The empty dict {}.
\* The keys are those of stock.info the adapters read; 'marketCap' may be absent
\* (None), present with the value None (Some(None)) or a number.
EmptyInfo ==
    [regularMarketPrice |-> None, currentPrice |-> None,
     regularMarketPreviousClose |-> None, previousClose |-> None,
     longName |-> None, sector |-> None, marketCap |-> None,
     longBusinessSummary |-> None]

\* Python's "a or b" on optional numbers: a when a is truthy, else b.
PyOr(a, b) == IF a # None /\ a[1] # 0 THEN a ELSE b

\* The all-null snapshot.
NullSnapshot ==
    [current_price |-> None, previous_close |-> None, change |-> None,
     change_pct |-> None]

\* A backfill that takes the last close as the previous price as well.
backfill_prev_last(prev, closes) ==
    IF prev # None THEN prev
    ELSE IF Len(closes) >= 1 THEN Some(closes[Len(closes)])
    ELSE None

\* prev = float(hist['Close'].iloc[-2]) if prev is None else prev   (>= 2 rows)
\* prev = float(hist['Close'].iloc[0]) if prev is None else prev    (1 row)
backfill_prev(prev, closes) ==
    IF prev # None THEN prev
    ELSE IF Len(closes) >= 2 THEN Some(closes[Len(closes) - 1])
    ELSE IF Len(closes) = 1 THEN Some(closes[1])
    ELSE None

\* current = float(hist['Close'].iloc[-1]) if current is None else current
backfill_current(current, closes) ==
    IF current # None THEN current
    ELSE IF Len(closes) >= 2 THEN Some(closes[Len(closes)])
    ELSE IF Len(closes) = 1 THEN Some(closes[1])
    ELSE None

\* A percentage computed without the guard on a zero previous close.
change_pct_unguarded(change, prev) == Some(<<change * 100, prev>>)

\* pct = (change / prev) * 100 if prev != 0 else None, as the fraction
\* <<change * 100, prev>>.
change_pct(change, prev) ==
    IF prev # 0 THEN Some(<<change * 100, prev>>) ELSE None

\* A tail that takes a missing previous close for 0 when computing change.
price_snapshot_prev_or_0(current, prev) ==
    IF current = None THEN NullSnapshot
    ELSE IF prev = None
    THEN [current_price |-> current, previous_close |-> None,
          change |-> Some(current[1]), change_pct |-> None]
    ELSE [current_price |-> current, previous_close |-> prev,
          change |-> Some(current[1] - prev[1]),
          change_pct |-> change_pct(current[1] - prev[1], prev[1])]

\* The tail of get_price_and_change once current and prev are settled.
price_snapshot(current, prev) ==
    IF current = None THEN NullSnapshot
    ELSE IF prev = None
    THEN [current_price |-> current, previous_close |-> None,
          change |-> None, change_pct |-> None]
    ELSE [current_price |-> current, previous_close |-> prev,
          change |-> Some(current[1] - prev[1]),
          change_pct |-> change_pct(current[1] - prev[1], prev[1])]

\* current = info.get('regularMarketPrice') or info.get('currentPrice')
live_current(d) == PyOr(d.regularMarketPrice, d.currentPrice)

\* prev = info.get('regularMarketPreviousClose') or info.get('previousClose')
live_prev(d) == PyOr(d.regularMarketPreviousClose, d.previousClose)

\* get_price_and_change(ticker).  info: outcome of stock.info; hist: outcome
\* of stock.history(period='3d') as the optional sequence of its closes.
get_price_and_change(info, hist) ==
    IF info.raised THEN NullSnapshot
    ELSE LET d == IF info.value = None THEN EmptyInfo ELSE info.value[1]
             current == live_current(d)
             prev == live_prev(d)
         IN  IF current # None /\ prev # None THEN price_snapshot(current, prev)
             ELSE IF hist.raised THEN NullSnapshot
             ELSE LET closes == IF hist.value = None THEN << >> ELSE hist.value[1]
                  IN  price_snapshot(backfill_current(current, closes),
                                     backfill_prev(prev, closes))

DigitChars == <<"0","1","2","3","4","5","6","7","8","9">>

RECURSIVE Digits(_)
\* str(n) for n >= 0
Digits(n) ==
    IF n < 10 THEN <<DigitChars[n + 1]>>
    ELSE Digits(n \div 10) \o <<DigitChars[(n % 10) + 1]>>

\* A group of three digits, zero padded.
Digits3(n) ==
    <<DigitChars[(n \div 100) + 1], DigitChars[((n \div 10) % 10) + 1],
      DigitChars[(n % 10) + 1]>>

RECURSIVE FormatThousands(_)
\* format(n, ',') for n >= 0
FormatThousands(n) ==
    IF n < 1000 THEN Digits(n)
    ELSE FormatThousands(n \div 1000) \o <<",">> \o Digits3(n % 1000)

\* A get_company_info whose handler returns a profile of defaults.
company_info_except_defaults ==
    Some([CompanyName |-> StrNA, Sector |-> StrNA, MarketCap |-> StrNA,
          BusinessSummary |-> StrNA])

\* except: return None
company_info_except == None

\* get_company_info(ticker): the profile, or None when anything raises
\* (stock.info raising, stock.info being None, formatting a None market cap).
get_company_info(info) ==
    IF info.raised \/ info.value = None THEN company_info_except
    ELSE LET d == info.value[1] IN
         IF d.marketCap = Some(None) THEN company_info_except
         ELSE Some([CompanyName |-> GetOr(d.longName, StrNA),
                    Sector |-> GetOr(d.sector, StrNA),
                    MarketCap |-> <<"$">> \o
                        FormatThousands(IF d.marketCap = None THEN 0
                                        ELSE d.marketCap[1][1]),
                    BusinessSummary |-> GetOr(d.longBusinessSummary, StrNA)])

\* A row of the history frame: the columns may be absent.
HistoryRows ==
    {[Open |-> Some(p), High |-> Some(p), Low |-> Some(p), Close |-> Some(p),
      Volume |-> Some(p)] : p \in Prices}
    \cup {[Open |-> None, High |-> None, Low |-> None, Close |-> None,
           Volume |-> None]}

\* UTC offsets (hours) of the frame's index; None is a timezone-naive index.
IndexZones == Opt({0, -5})

\* A history frame: row i is indexed by midnight of day i in the index's zone.
Frames == [tz : IndexZones, rows : SeqsUpTo(HistoryRows, MaxRows)]

\* get_stock_data(ticker): the frame, or None when it is empty or the
\* provider raises.
get_stock_data(hist) ==
    IF hist.raised THEN None
    ELSE IF hist.value.rows = << >> THEN None
    ELSE Some(hist.value)

(***************************************************************************)
(* services.py                                                             *)
(***************************************************************************)
\* hist.tail(180)
TailLimit == 180

\* hist.head(5)
HeadLimit == 5

\* The message of the TypeError tz_convert raises on a naive index.
TzNaiveErrorMsg == <<"t","z","-","n","a","i","v","e">>

\* A tail that keeps the first n elements.
LastRows_first(s, n) == IF Len(s) <= n THEN s ELSE SubSeq(s, 1, n)

\* The last n elements of s (all of s when it is shorter).
LastRows(s, n) == IF Len(s) <= n THEN s ELSE SubSeq(s, Len(s) - n + 1, Len(s))

\* The first n elements of s.
FirstRows(s, n) == IF Len(s) <= n THEN s ELSE SubSeq(s, 1, n)

\* The index of a frame: midnight of day i in the frame's zone, for the i-th
\* row of the full frame.
IndexOf(frame) ==
    [i \in 1..Len(frame.rows) |-> [day |-> i, hour |-> 0, tz |-> frame.tz]]

\* index.tz_convert(None) on one timestamp of an aware index: the UTC wall
\* time, without a zone.
tz_convert_none(ts) == [day |-> ts.day, hour |-> ts.hour - ts.tz[1], tz |-> None]

\* Timestamp.isoformat(): day, "T", hour and, for an aware timestamp, the
\* UTC offset.
isoformat(ts) ==
    Digits(ts.day) \o <<"T">> \o Digits(ts.hour)
    \o (IF ts.tz = None THEN << >>
        ELSE IF ts.tz[1] < 0 THEN <<"-">> \o Digits(0 - ts.tz[1])
        ELSE <<"+">> \o Digits(ts.tz[1]))

\* float(row.get(col, None) or 0.0), int(row.get('Volume', 0) or 0)
NumberOr0(field) == IF field # None /\ field[1] # 0 THEN field[1] ELSE 0

\* One point of history_serialized.
history_point(ts, row) ==
    [date |-> isoformat(ts), open |-> NumberOr0(row.Open),
     high |-> NumberOr0(row.High), low |-> NumberOr0(row.Low),
     close |-> NumberOr0(row.Close), volume |-> NumberOr0(row.Volume)]

\* Lines 42-57 of get_company_data: None, the serialized points, or the
\* TypeError of tz_convert on a naive index.
serialize_history(hist) ==
    IF hist = None THEN Ok(None)
    ELSE IF hist[1].rows = << >> THEN Ok(None)
    ELSE LET rows == LastRows(hist[1].rows, TailLimit)
             index == LastRows(IndexOf(hist[1]), TailLimit)
         IN  IF hist[1].tz = None THEN Raise(TzNaiveErrorMsg)
             ELSE Ok(Some([i \in 1..Len(rows) |->
                              history_point(tz_convert_none(index[i]), rows[i])]))

\* The price step of get_company_data: its own try/except turns a raising
\* get_price_and_change into None.
price_best_effort(price) == IF price.raised THEN None ELSE Some(price.value)

\* The try block of get_company_data (lines 38-71).
company_body(profile, hist, price) ==
    IF profile.raised THEN profile
    ELSE IF hist.raised THEN hist
    ELSE LET history == serialize_history(hist.value) IN
         IF history.raised THEN history
         ELSE Ok([profile |-> profile.value,
                  history_head |->
                      IF hist.value = None THEN None
                      ELSE Some(FirstRows(hist.value[1].rows, HeadLimit)),
                  history |-> history.value,
                  price |-> price_best_effort(price)])

\* A get_company_data without its handler.
company_except_missing(body) == body

\* except Exception as e: return {'error': str(e)}
company_except(body) ==
    IF body.raised THEN Ok([error |-> body.msg]) ELSE body

\* get_company_data(ticker).  available: whether the data_ingestion module
\* was imported; profile, hist, price: the outcomes of the module's
\* get_company_info, get_stock_data and get_price_and_change, which are looked
\* up on the module at call time.
get_company_data(available, profile, hist, price) ==
    IF ~available THEN Ok([name |-> None])
    ELSE company_except(company_body(profile, hist, price))

\* analyze_news_for_ticker(ticker): the items of get_stock_news, or [] when a
\* module is missing or get_stock_news raises.
analyze_news_for_ticker(available, news) ==
    IF ~available THEN << >>
    ELSE IF news.raised THEN << >>
    ELSE news.value

(***************************************************************************)
(* views.py                                                                *)
(***************************************************************************)
\* dict.get(key) on a dict modelled as a record.
DictGet(d, key) == IF key \in DOMAIN d THEN d[key] ELSE None

\* analyze(request): the JSON body and status of the response.
analyze(company_data, news) ==
    LET profile == DictGet(company_data, "profile")
        price == DictGet(company_data, "price")
        price_info == IF price = None THEN NullSnapshot ELSE price[1]
        history == DictGet(company_data, "history")
    IN  [status |-> 200,
         company |->
            [name |-> IF profile = None THEN None ELSE Some(profile[1].CompanyName),
             sector |-> IF profile = None THEN None ELSE Some(profile[1].Sector),
             market_cap |-> IF profile = None THEN None ELSE Some(profile[1].MarketCap),
             business_summary |->
                 IF profile = None THEN None ELSE Some(profile[1].BusinessSummary),
             current_price |-> price_info.current_price,
             previous_close |-> price_info.previous_close,
             change |-> price_info.change,
             change_pct |-> price_info.change_pct],
         news |-> news,
         news_available |-> news # << >>,
         history |-> history,
         history_available |-> history # None /\ history # Some(<< >>)]

(***************************************************************************)
(* script/build_silver_dataset.py                                          *)
(***************************************************************************)
\* str.strip(): the string without its leading and trailing blanks.
Strip(s) ==
    LET inked == {i \in 1..Len(s) : s[i] # " "} IN
    IF inked = {} THEN << >>
    ELSE SubSeq(s, CHOOSE i \in inked : \A j \in inked : i <= j,
                   CHOOSE i \in inked : \A j \in inked : j <= i)

\* normalize_label(raw)
normalize_label(raw) ==
    IF raw = << >> THEN str_neutral
    ELSE LET r == Lower(Strip(raw)) IN
         IF Contains(r, <<"p","o","s">>) THEN str_positive
         ELSE IF Contains(r, <<"n","e","g">>) THEN str_negative
         ELSE IF Contains(r, <<"n","e","u">>) THEN str_neutral
         ELSE str_neutral

\* f"{score:.6f}" if isinstance(score, float) else "", for a score in
\* hundredths below 1.
format_score(score) ==
    IF score = None THEN << >>
    ELSE <<"0", ".", DigitChars[(score[1] \div 10) + 1],
           DigitChars[(score[1] % 10) + 1], "0", "0", "0", "0">>

\* items = items[: args.limit] when args.limit > 0
apply_limit(items, limit) ==
    IF limit > 0 THEN FirstRows(items, limit) ELSE items

\* title = (it.get("title") or "").strip()
item_title(it) == Strip(GetOr(it.title, << >>))

\* A key that keeps the case of the title.
dedup_key_exact(title) == title

\* key = title.lower()
dedup_key(title) == Lower(title)

\* The row appended for an item that is kept (lines 76-91).
silver_row(it, title, classifier) ==
    LET result == analyze_sentiment(Some(title), classifier).value
        raw_label == Strip(GetOr(result.label, << >>))
    IN  [headline |-> title,
         label |-> normalize_label(raw_label),
         score |-> format_score(result.score),
         raw_label |-> raw_label,
         source |-> GetOr(it.source, << >>),
         published |-> GetOr(it.published, << >>),
         link |-> GetOr(it.link, << >>)]

RECURSIVE build_rows(_, _, _, _, _, _)
\* The loop of main (lines 64-91): seen is the set of keys met so far.
build_rows(items, classifier, min_len, unique, seen, rows) ==
    IF items = << >> THEN rows
    ELSE LET it == Head(items)
             title == item_title(it)
         IN  IF title = << >> \/ Len(title) < min_len
             THEN build_rows(Tail(items), classifier, min_len, unique, seen, rows)
             ELSE IF unique /\ dedup_key(title) \in seen
             THEN build_rows(Tail(items), classifier, min_len, unique, seen, rows)
             ELSE build_rows(Tail(items), classifier, min_len, unique,
                             IF unique THEN seen \cup {dedup_key(title)} ELSE seen,
                             Append(rows, silver_row(it, title, classifier)))

\* main(): the rows written to the CSV.  items: what get_stock_news returned;
\* classifier: what load_sentiment_model returned.
build_silver_dataset(items, limit, min_len, unique, classifier) ==
    build_rows(apply_limit(items, limit), classifier, min_len, unique, {}, << >>)

(***************************************************************************)
(* The inputs of the calls.                                                *)
(***************************************************************************)
\* stock.info as get_price_and_change reads it.
QuoteInfos ==
    [regularMarketPrice : Opt(Prices), currentPrice : Opt(Prices),
     regularMarketPreviousClose : Opt(Prices), previousClose : Opt(Prices),
     longName : {None}, sector : {None}, marketCap : {None},
     longBusinessSummary : {None}]

\* stock.info as get_company_info reads it.
ProfileInfos ==
    [regularMarketPrice : {None}, currentPrice : {None},
     regularMarketPreviousClose : {None}, previousClose : {None},
     longName : Opt({StrHeadline}), sector : Opt({StrLink}),
     marketCap : Opt(Opt(MarketCaps)), longBusinessSummary : Opt({StrPublished})]

\* Outcomes of reading stock.info.
InfoOutcomes(S) ==
    {Raise(ProviderErrorMsg), Ok(None)} \cup {Ok(Some(d)) : d \in S}

\* Outcomes of stock.history(period='3d'), as the closes of the frame.
ClosesOutcomes ==
    {Raise(ProviderErrorMsg), Ok(None)}
    \cup {Ok(Some(c)) : c \in SeqsUpTo(Prices, MaxHist)}

\* Outcomes of stock.history(period='5y').
FrameOutcomes == {Raise(ProviderErrorMsg)} \cup {Ok(f) : f \in Frames}

\* A provider that answers every key.
FullInfo ==
    [regularMarketPrice |-> Some(2), currentPrice |-> Some(2),
     regularMarketPreviousClose |-> Some(1), previousClose |-> Some(1),
     longName |-> Some(StrHeadline), sector |-> Some(StrLink),
     marketCap |-> Some(Some(1234567)),
     longBusinessSummary |-> Some(StrPublished)]

\* A row with every column.
FullRow(p) ==
    [Open |-> Some(p), High |-> Some(p), Low |-> Some(p), Close |-> Some(p),
     Volume |-> Some(p)]

\* The classifier that gives every text the same outcome.
ConstantClassifier(out) == [t \in ClassifierTexts |-> out]

\* The provider situations the /analyze view is run against.
InfoSamples ==
    {Raise(ProviderErrorMsg), Ok(None), Ok(Some(EmptyInfo)), Ok(Some(FullInfo))}

FrameSamples ==
    { Raise(ProviderErrorMsg),
      Ok([tz |-> Some(0), rows |-> << >>]),
      Ok([tz |-> Some(-5), rows |-> <<FullRow(1), FullRow(2)>>]),
      Ok([tz |-> None, rows |-> <<FullRow(1), FullRow(2)>>]) }

ClosesSamples ==
    {Raise(ProviderErrorMsg), Ok(None), Ok(Some(<<1, 2>>))}

ClassifierSamples ==
    { ConstantClassifier([kind |-> "raise", label |-> None, score |-> None]),
      ConstantClassifier([kind |-> "result", label |-> Some(str_positive),
                          score |-> Some(87)]) }

FeedSamples ==
    { Raise(ProviderErrorMsg), Ok(<< >>),
      Ok(<<[title |-> Some(StrHeadline), link |-> Some(StrLink),
            published |-> Some(StrPublished)]>>) }

\* The outcomes of the adapters get_company_data calls: what the adapters
\* return, and a raise.
ProfileOutcomes ==
    {Raise(ProviderErrorMsg)} \cup {Ok(get_company_info(i)) : i \in InfoSamples}

\* A history of n full rows, about as long as the 180 rows that are kept.
LongFrame(n, tz) ==
    [tz |-> tz, rows |-> [i \in 1..n |-> FullRow(i % (MaxPrice + 1))]]

LongFrames ==
    {LongFrame(n, tz) : n \in (TailLimit - 1)..(TailLimit + MaxExtra),
                        tz \in IndexZones}

HistOutcomes ==
    {Raise(ProviderErrorMsg), Ok(None)}
    \cup {Ok(Some(f)) : f \in Frames \cup LongFrames}

PriceOutcomes ==
    {Raise(ProviderErrorMsg)}
    \cup {Ok(get_price_and_change(i, c)) : i \in InfoSamples, c \in ClosesSamples}

\* Headlines as the dataset builder meets them: differing in case, padded
\* with blanks, short, blank.
BuilderTitles ==
    { <<"A","b">>, <<"a","b">>, <<" ","a","b">>, <<"a","b","c">>, <<"a">>,
      <<" ">> }

\* The titles the builder can hand to the classifier.
BuilderTexts == {Strip(t) : t \in BuilderTitles} \ {<< >>}

\* A news item as the builder reads it; get_stock_news sets no 'source'.
BuilderItems ==
    [title : Opt(BuilderTitles), link : {Some(StrLink)},
     published : {Some(StrPublished)}, source : {None}]

\* The classifier the builder loads: None, or one giving every headline the
\* same outcome.
BuilderClassifiers ==
    {None}
    \cup {Some([t \in BuilderTexts |-> out]) :
            out \in { [kind |-> "raise", label |-> None, score |-> None],
                      [kind |-> "result", label |-> Some(str_negative),
                       score |-> Some(87)] }}

(***************************************************************************)
(* Calls.                                                                  *)
(***************************************************************************)
Init ==
    /\ pc = "idle"
    /\ op = "none"
    /\ args = << >>
    /\ ret = << >>

\* analyze_sentiment(text, classifier)
CallAnalyzeSentiment ==
    /\ pc = "idle"
    /\ \E text \in Opt({<< >>, StrHeadline, StrNoTitle}),
          classifier \in Opt(Classifiers) :
        /\ args' = [text |-> text, classifier |-> classifier]
        /\ ret' = analyze_sentiment(text, classifier)
    /\ op' = "analyze_sentiment"
    /\ pc' = "returned"

\* get_stock_news(ticker)
CallGetStockNews ==
    /\ pc = "idle"
    /\ \E loads \in BOOLEAN, model \in Classifiers, feed \in FeedOutcomes :
        /\ args' = [loads |-> loads, model |-> model, feed |-> feed]
        /\ ret' = get_stock_news(loads, model, feed)
    /\ op' = "get_stock_news"
    /\ pc' = "returned"

\* get_price_and_change(ticker)
CallGetPriceAndChange ==
    /\ pc = "idle"
    /\ \E info \in InfoOutcomes(QuoteInfos), hist \in ClosesOutcomes :
        /\ args' = [info |-> info, hist |-> hist]
        /\ ret' = Ok(get_price_and_change(info, hist))
    /\ op' = "get_price_and_change"
    /\ pc' = "returned"

\* get_company_info(ticker)
CallGetCompanyInfo ==
    /\ pc = "idle"
    /\ \E info \in InfoOutcomes(ProfileInfos) :
        /\ args' = [info |-> info]
        /\ ret' = Ok(get_company_info(info))
    /\ op' = "get_company_info"
    /\ pc' = "returned"

\* get_company_data(ticker)
CallGetCompanyData ==
    /\ pc = "idle"
    /\ \E available \in BOOLEAN, profile \in ProfileOutcomes,
          hist \in HistOutcomes, price \in PriceOutcomes :
        /\ args' = [available |-> available, profile |-> profile,
                    hist |-> hist, price |-> price]
        /\ ret' = get_company_data(available, profile, hist, price)
    /\ op' = "get_company_data"
    /\ pc' = "returned"

\* GET /analyze: get_company_data and analyze_news_for_ticker over the real
\* adapters, then the response.
CallAnalyze ==
    /\ pc = "idle"
    /\ \E available \in BOOLEAN, info \in InfoSamples, frame \in FrameSamples,
          closes \in ClosesSamples, loads \in BOOLEAN,
          model \in ClassifierSamples, feed \in FeedSamples :
        LET company_data ==
                get_company_data(available, Ok(get_company_info(info)),
                                 Ok(get_stock_data(frame)),
                                 Ok(get_price_and_change(info, closes)))
            news ==
                analyze_news_for_ticker(available,
                                        get_stock_news(loads, model, feed))
        IN  /\ args' = [available |-> available, info |-> info, frame |-> frame,
                        closes |-> closes, loads |-> loads, model |-> model,
                        feed |-> feed]
            /\ ret' = IF company_data.raised
                      THEN company_data
                      ELSE [raised |-> FALSE,
                            company_data |-> company_data.value,
                            value |-> analyze(company_data.value, news)]
    /\ op' = "analyze"
    /\ pc' = "returned"

\* build_silver_dataset.py main(): --limit, --min-len and --unique are the
\* command line's; the result is the rows written.
CallBuildSilverDataset ==
    /\ pc = "idle"
    /\ \E items \in SeqsUpTo(BuilderItems, MaxItems), limit \in {0, 2},
          min_len \in {1, 3}, unique \in BOOLEAN,
          classifier \in BuilderClassifiers :
        /\ args' = [items |-> items, limit |-> limit, min_len |-> min_len,
                    unique |-> unique, classifier |-> classifier]
        /\ ret' = Ok(build_silver_dataset(items, limit, min_len, unique,
                                          classifier))
    /\ op' = "build_silver_dataset"
    /\ pc' = "returned"

\* The call's result is consumed; nothing is kept between calls.
Return ==
    /\ pc = "returned"
    /\ pc' = "idle"
    /\ op' = "none"
    /\ args' = << >>
    /\ ret' = << >>

Next ==
    \/ CallAnalyzeSentiment
    \/ CallGetStockNews
    \/ CallGetPriceAndChange
    \/ CallGetCompanyInfo
    \/ CallGetCompanyData
    \/ CallAnalyze
    \/ CallBuildSilverDataset
    \/ Return

Spec == Init /\ [][Next]_vars

(***************************************************************************)
(* Properties.                                                             *)
(***************************************************************************)
Returned(name) == pc = "returned" /\ op = name

\* The canonical sentiment vocabulary.
CanonicalLabels == {StrPositive, StrNegative, StrNeutral}

\* The neutral default in the canonical vocabulary.
CanonicalDefault == [label |-> Some(StrNeutral), score |-> Some(0)]

\* analyze_sentiment is called with a classifier and a non-empty text.
Scored == args.classifier # None /\ args.text # None /\ args.text # Some(<< >>)

\* C1: every NewsItem get_stock_news returns carries a label that is one of
\* Positive, Negative, Neutral, whatever the feed items and the classifier do.
C1_LabelsCanonical ==
    Returned("get_stock_news") =>
        /\ ~ret.raised
        /\ \A i \in 1..Len(ret.value) :
              ret.value[i].sentiment_label \in CanonicalLabels

\* C2: with a null classifier or an empty/null text, analyze_sentiment returns
\* exactly {label: Neutral, score: 0.0} and does not invoke the classifier.
C2_NeutralDefault ==
    (Returned("analyze_sentiment") /\ ~Scored) =>
        /\ ~ret.raised
        /\ ret.value = CanonicalDefault
        /\ ret.calls = 0

\* C3: for a non-null classifier and a non-empty text, the raw label is mapped
\* by case-insensitive substring match: "pos" gives Positive, "neg" gives
\* Negative, "neu" or anything else gives Neutral.
C3_SubstringMapping ==
    (/\ Returned("analyze_sentiment")
     /\ Scored
     /\ args.classifier[1][args.text[1]].kind = "result"
     /\ args.classifier[1][args.text[1]].label # None) =>
        LET raw == Lower(args.classifier[1][args.text[1]].label[1]) IN
        /\ ~ret.raised
        /\ ret.value.label =
              Some(IF Contains(raw, <<"p","o","s">>) THEN StrPositive
                   ELSE IF Contains(raw, <<"n","e","g">>) THEN StrNegative
                   ELSE StrNeutral)

\* The classifier call of analyze_sentiment fails: it raises, returns an empty
\* batch, or returns a result without a label.
ClassifierFails ==
    /\ Scored
    /\ \/ args.classifier[1][args.text[1]].kind \in {"raise", "empty"}
       \/ args.classifier[1][args.text[1]].label = None

\* C4: analyze_sentiment never raises, and on a failing classifier call it
\* returns the neutral default {label: Neutral, score: 0.0}.
C4_NeverRaises ==
    Returned("analyze_sentiment") =>
        /\ ~ret.raised
        /\ ClassifierFails => ret.value = CanonicalDefault

(***************************************************************************)
(* get_price_and_change.                                                   *)
(***************************************************************************)
\* The dict get_price_and_change reads ({} when stock.info is None).
QuoteDict == IF args.info.value = None THEN EmptyInfo ELSE args.info.value[1]

\* The closes get_price_and_change can fall back on.
QuoteCloses == IF args.hist.value = None THEN << >> ELSE args.hist.value[1]

\* The first of two quote fields that is present.
FirstPresent(a, b) == IF a # None THEN a ELSE b

\* The first of two quote fields unless it is absent or zero, else the second.
FirstNonZero(a, b) == IF a # None /\ a # Some(0) THEN a ELSE b

\* The last close.
LastClose(closes) ==
    IF Len(closes) >= 1 THEN Some(closes[Len(closes)]) ELSE None

\* The second-to-last close.
SecondToLastClose(closes) ==
    IF Len(closes) >= 2 THEN Some(closes[Len(closes) - 1]) ELSE None

\* The second-to-last close, or the only close of a one-row history.
PreviousClose(closes) ==
    IF Len(closes) >= 2 THEN Some(closes[Len(closes) - 1])
    ELSE IF Len(closes) = 1 THEN Some(closes[1])
    ELSE None

\* C5 as stated: with a readable provider, current and previous resolve by live
\* field, then history (second-to-last close as previous, last as current);
\* if either is still unresolved all four fields are null.
C5_OriginalChain ==
    (Returned("get_price_and_change") /\ ~args.info.raised /\ ~args.hist.raised) =>
        LET d == QuoteDict
            cur == FirstPresent(FirstPresent(d.regularMarketPrice, d.currentPrice),
                                LastClose(QuoteCloses))
            prv == FirstPresent(FirstPresent(d.regularMarketPreviousClose,
                                             d.previousClose),
                                SecondToLastClose(QuoteCloses))
        IN  IF cur = None \/ prv = None
            THEN ret.value = NullSnapshot
            ELSE /\ ret.value.current_price = cur
                 /\ ret.value.previous_close = prv

\* C5 amended: a live value is the first of the two quote fields unless that is
\* absent or zero, else the second.  With both live values the history is not
\* read.  Otherwise a missing value is backfilled from the history: the last
\* close as current, the second-to-last close (the only close of a one-row
\* history) as previous.  All four fields are null when current is still
\* unresolved or the provider raises; when only previous is unresolved,
\* current_price is returned and the other three fields are null.
C5_Chain ==
    Returned("get_price_and_change") =>
        IF args.info.raised THEN ret.value = NullSnapshot
        ELSE LET d == QuoteDict
                 liveCur == FirstNonZero(d.regularMarketPrice, d.currentPrice)
                 livePrv == FirstNonZero(d.regularMarketPreviousClose,
                                         d.previousClose)
             IN  IF liveCur # None /\ livePrv # None
                 THEN /\ ret.value.current_price = liveCur
                      /\ ret.value.previous_close = livePrv
                 ELSE IF args.hist.raised THEN ret.value = NullSnapshot
                 ELSE LET cur == FirstPresent(liveCur, LastClose(QuoteCloses))
                          prv == FirstPresent(livePrv, PreviousClose(QuoteCloses))
                      IN  IF cur = None THEN ret.value = NullSnapshot
                          ELSE IF prv = None
                          THEN ret.value = [current_price |-> cur,
                                            previous_close |-> None,
                                            change |-> None, change_pct |-> None]
                          ELSE /\ ret.value.current_price = cur
                               /\ ret.value.previous_close = prv

\* The previous price is backfilled from a history of three distinct closes
\* while the current price is live.
C5_Witness ==
    /\ Returned("get_price_and_change")
    /\ ~args.info.raised /\ ~args.hist.raised
    /\ QuoteDict.regularMarketPrice = Some(2)
    /\ QuoteDict.regularMarketPreviousClose = None
    /\ QuoteDict.previousClose = None
    /\ QuoteCloses = <<2, 1, 0>>
    /\ ret.value.current_price = Some(2)
    /\ ret.value.previous_close = Some(1)

\* Both prices of the returned snapshot are resolved.
BothResolved ==
    ret.value.current_price # None /\ ret.value.previous_close # None

\* C6 as stated: change and change_pct are both non-null exactly when current
\* and previous resolve, and both null otherwise.
C6_OriginalBoth ==
    Returned("get_price_and_change") =>
        IF BothResolved
        THEN ret.value.change # None /\ ret.value.change_pct # None
        ELSE ret.value.change = None /\ ret.value.change_pct = None

\* C6 amended: change is non-null, and equal to current - previous, exactly
\* when both prices resolve; change_pct is non-null exactly when both resolve
\* and the previous close is not 0; with no live quote field and no historical
\* row all four fields are null.
C6_ChangeIffResolved ==
    Returned("get_price_and_change") =>
        /\ ret.value.change # None <=> BothResolved
        /\ BothResolved =>
              ret.value.change =
                  Some(ret.value.current_price[1] - ret.value.previous_close[1])
        /\ ret.value.change_pct # None <=>
              (BothResolved /\ ret.value.previous_close # Some(0))
        /\ (/\ ~args.info.raised /\ ~args.hist.raised
            /\ QuoteDict = EmptyInfo /\ QuoteCloses = << >>) =>
              ret.value = NullSnapshot

\* Both prices are backfilled from the history and the previous close is
\* not 0: change and change_pct are both returned.
C6_Witness ==
    /\ Returned("get_price_and_change")
    /\ ~args.info.raised /\ ~args.hist.raised
    /\ QuoteDict = EmptyInfo
    /\ QuoteCloses = <<1, 2>>
    /\ ret.value.current_price = Some(2)
    /\ ret.value.previous_close = Some(1)
    /\ ret.value.change = Some(1)
    /\ ret.value.change_pct = Some(<<100, 1>>)

\* C7: change_pct is null whenever previous_close is 0, and no change_pct is a
\* quotient by 0.
C7_NoPctOnZeroPrev ==
    Returned("get_price_and_change") =>
        /\ ret.value.previous_close = Some(0) => ret.value.change_pct = None
        /\ ret.value.change_pct # None => ret.value.change_pct[1][2] # 0

\* A zero previous close from the live quote with a resolved current price.
C7_Witness ==
    /\ Returned("get_price_and_change")
    /\ ~args.info.raised
    /\ QuoteDict.previousClose = Some(0)
    /\ ret.value.current_price = Some(2)
    /\ ret.value.previous_close = Some(0)
    /\ ret.value.change = Some(2)
    /\ ret.value.change_pct = None

(***************************************************************************)
(* get_company_data and /analyze.                                          *)
(***************************************************************************)
\* A step of get_company_data's try block, outside the nested handler of the
\* price step, raises: an adapter, or tz_convert on a timezone-naive index.
CompanyBodyFails ==
    \/ args.profile.raised
    \/ args.hist.raised
    \/ /\ args.hist.value # None
       /\ args.hist.value[1].rows # << >>
       /\ args.hist.value[1].tz = None

\* The message of the first failing step.
CompanyFailure ==
    IF args.profile.raised THEN args.profile.msg
    ELSE IF args.hist.raised THEN args.hist.msg
    ELSE TzNaiveErrorMsg

ProviderDown ==
    /\ args.available
    /\ args.info.raised /\ args.frame.raised /\ args.closes.raised
    /\ args.feed.raised

\* C9 as stated: with a provider that raises on every call get_company_data
\* returns a dict with an error key and /analyze answers 200 with
\* news_available false.
C9_OriginalErrorDict ==
    (Returned("analyze") /\ ProviderDown) =>
        /\ ~ret.raised
        /\ "error" \in DOMAIN ret.company_data
        /\ ret.value.status = 200
        /\ ~ret.value.news_available

\* C9 amended: with a provider that raises on every call get_company_data
\* returns the normal dict, without an error key, with profile, history_head
\* and history null and a price snapshot of four nulls; /analyze answers 200
\* with news_available false.
C9_ProviderDown ==
    (Returned("analyze") /\ ProviderDown) =>
        /\ ~ret.raised
        /\ ret.company_data =
              [profile |-> None, history_head |-> None, history |-> None,
               price |-> Some(NullSnapshot)]
        /\ ret.value.status = 200
        /\ ret.value.news = << >>
        /\ ~ret.value.news_available
        /\ ~ret.value.history_available

\* /analyze has answered with the provider raising on every call.
C9_Witness ==
    /\ Returned("analyze")
    /\ ProviderDown
    /\ args.loads
    /\ ~ret.raised
    /\ ret.value.status = 200

\* C10 as stated: when the model does not load, get_stock_news returns one
\* NewsItem per fetched feed item, each with sentiment {Neutral, 0.0}.
C10_OriginalDegrades ==
    (Returned("get_stock_news") /\ ~args.loads /\ ~args.feed.raised) =>
        /\ ~ret.raised
        /\ Len(ret.value) = Len(args.feed.value)
        /\ \A i \in 1..Len(ret.value) :
              /\ ret.value[i].sentiment_label = StrNeutral
              /\ ret.value[i].sentiment_score = 0

\* C10 amended: when the model does not load, get_stock_news returns the empty
\* sequence whatever the feed holds, and nothing raises.
C10_EmptyWithoutModel ==
    (Returned("get_stock_news") /\ ~args.loads) => ret = Ok(<< >>)

\* The model did not load and the feed holds two items.
C10_Witness ==
    /\ Returned("get_stock_news")
    /\ ~args.loads
    /\ ~args.feed.raised
    /\ Len(args.feed.value) = 2
    /\ ret = Ok(<< >>)

(***************************************************************************)
(* get_stock_news: shape of the result.                                    *)
(***************************************************************************)
\* The title get_stock_news gives the i-th feed item.
FeedTitle(i) ==
    IF args.feed.value[i].title = None THEN StrNoTitle
    ELSE args.feed.value[i].title[1]

\* Building the i-th NewsItem raises: the title is scored, and the classifier's
\* result for it has a label but no score.
ItemRaises(i) ==
    /\ FeedTitle(i) # << >>
    /\ args.model[FeedTitle(i)].kind = "result"
    /\ args.model[FeedTitle(i)].label # None
    /\ args.model[FeedTitle(i)].score = None

\* C11: get_stock_news never raises; when the feed is fetched and no item
\* raises it returns one NewsItem per feed item, in feed order, with title
\* "No Title", link "#" and published "N/A" where the item omits them; when the
\* fetch or an item raises it returns the empty sequence.
C11_OnePerItem ==
    Returned("get_stock_news") =>
        /\ ~ret.raised
        /\ (args.loads /\ args.feed.raised) => ret.value = << >>
        /\ (args.loads /\ ~args.feed.raised) =>
              IF \E i \in 1..Len(args.feed.value) : ItemRaises(i)
              THEN ret.value = << >>
              ELSE /\ Len(ret.value) = Len(args.feed.value)
                   /\ \A i \in 1..Len(ret.value) :
                         /\ ret.value[i].title = FeedTitle(i)
                         /\ ret.value[i].link =
                               (IF args.feed.value[i].link = None THEN StrHash
                                ELSE args.feed.value[i].link[1])
                         /\ ret.value[i].published =
                               (IF args.feed.value[i].published = None THEN StrNA
                                ELSE args.feed.value[i].published[1])

\* A feed of two items, the first with every key and the second with none, is
\* returned as two NewsItems in that order.
C11_Witness ==
    /\ Returned("get_stock_news")
    /\ args.loads
    /\ ~args.feed.raised
    /\ Len(args.feed.value) = 2
    /\ args.feed.value[1].title = Some(StrHeadline)
    /\ args.feed.value[2] = [title |-> None, link |-> None, published |-> None]
    /\ ~ret.raised
    /\ Len(ret.value) = 2
    /\ ret.value[1].title = StrHeadline
    /\ ret.value[2].title = StrNoTitle
    /\ ret.value[2].link = StrHash
    /\ ret.value[2].published = StrNA

(***************************************************************************)
(* get_company_data: the serialized history.                               *)
(***************************************************************************)
\* get_company_data has returned a serialized history.
HistoryReturned ==
    /\ Returned("get_company_data")
    /\ ~ret.raised
    /\ "history" \in DOMAIN ret.value
    /\ ret.value.history # None

\* A column of a fetched row as it is serialized.
Column(field) == IF field = None THEN 0 ELSE field[1]

\* C12: a serialized history has at most 180 points; they are the last rows of
\* the fetched series in their order; each date is the UTC wall time of the
\* row's timestamp written without an offset.
C12_Last180Naive ==
    HistoryReturned =>
        LET h == ret.value.history[1]
            rows == args.hist.value[1].rows
            zone == args.hist.value[1].tz
            n == Len(rows)
            k == IF n <= 180 THEN n ELSE 180
        IN  /\ Len(h) <= 180
            /\ Len(h) = k
            /\ zone # None
            /\ \A j \in 1..k :
                  /\ h[j].date = Digits(n - k + j) \o <<"T">> \o Digits(0 - zone[1])
                  /\ ~Contains(h[j].date, <<"+">>)
                  /\ ~Contains(h[j].date, <<"-">>)
                  /\ h[j].open = Column(rows[n - k + j].Open)
                  /\ h[j].high = Column(rows[n - k + j].High)
                  /\ h[j].low = Column(rows[n - k + j].Low)
                  /\ h[j].close = Column(rows[n - k + j].Close)
                  /\ h[j].volume = Column(rows[n - k + j].Volume)

\* A series of 182 rows indexed in a zone five hours behind UTC is cut to its
\* last 180 rows: the first point is day 3, at 05:00.
C12_Witness ==
    /\ HistoryReturned
    /\ Len(args.hist.value[1].rows) = 182
    /\ args.hist.value[1].tz = Some(-5)
    /\ Len(ret.value.history[1]) = 180
    /\ ret.value.history[1][1].date = <<"3", "T", "5">>
    /\ ret.value.history[1][180].date = <<"1", "8", "2", "T", "5">>

(***************************************************************************)
(* get_company_info.                                                       *)
(***************************************************************************)
\* C13: when the provider answers with a dict, get_company_info returns a
\* profile with all four keys in which every field the provider omits is
\* "N/A", a market cap that is absent or null included.
C13_MissingFieldsNA ==
    (/\ Returned("get_company_info")
     /\ ~args.info.raised
     /\ args.info.value # None) =>
        LET d == args.info.value[1] IN
        /\ ret.value # None
        /\ DOMAIN ret.value[1] =
              {"CompanyName", "Sector", "MarketCap", "BusinessSummary"}
        /\ d.longName = None => ret.value[1].CompanyName = StrNA
        /\ d.sector = None => ret.value[1].Sector = StrNA
        /\ d.marketCap \in {None, Some(None)} => ret.value[1].MarketCap = StrNA
        /\ d.longBusinessSummary = None => ret.value[1].BusinessSummary = StrNA

(***************************************************************************)
(* build_silver_dataset --unique.                                          *)
(***************************************************************************)
\* The number of items the builder reads after --limit.
ItemsRead ==
    IF args.limit > 0 /\ args.limit < Len(args.items) THEN args.limit
    ELSE Len(args.items)

\* The k-th item's title, trimmed ("" when the item has none).
TrimmedTitle(k) ==
    IF args.items[k].title = None THEN << >> ELSE Strip(args.items[k].title[1])

\* The k-th item has a headline long enough to be written.
Eligible(k) == TrimmedTitle(k) # << >> /\ Len(TrimmedTitle(k)) >= args.min_len

\* The items that are the first eligible occurrence of their headline,
\* compared without case.
FirstOccurrences ==
    {k \in 1..ItemsRead :
        /\ Eligible(k)
        /\ \A m \in 1..(k - 1) :
              Eligible(m) => Lower(TrimmedTitle(m)) # Lower(TrimmedTitle(k))}

\* The j-th first occurrence, in feed order.
NthFirstOccurrence(j) ==
    CHOOSE k \in FirstOccurrences :
        Cardinality({m \in FirstOccurrences : m <= k}) = j

\* C14: with --unique no two written rows have headlines equal after trimming
\* and lower-casing, and the rows are the first occurrences, in feed order.
C14_UniqueHeadlines ==
    (Returned("build_silver_dataset") /\ args.unique) =>
        /\ \A i, j \in 1..Len(ret.value) :
              i # j => Lower(Strip(ret.value[i].headline))
                          # Lower(Strip(ret.value[j].headline))
        /\ Len(ret.value) = Cardinality(FirstOccurrences)
        /\ \A j \in 1..Len(ret.value) :
              ret.value[j].headline = TrimmedTitle(NthFirstOccurrence(j))

\* Two headlines that differ only in case, then a third: two rows, the first
\* spelling kept.
C14_Witness ==
    /\ Returned("build_silver_dataset")
    /\ args.unique
    /\ args.limit = 0
    /\ Len(args.items) = 3
    /\ args.items[1].title = Some(<<"A","b">>)
    /\ args.items[2].title = Some(<<"a","b">>)
    /\ args.items[3].title = Some(<<"a","b","c">>)
    /\ args.min_len = 1
    /\ Len(ret.value) = 2
    /\ ret.value[1].headline = <<"A","b">>
    /\ ret.value[2].headline = <<"a","b","c">>

====
